---- MODULE Spec2Model ----
(***************************************************************************)
(* twitter2rss: the adaptive scheduler (scheduler.js), the poll cycle, its *)
(* HTTP triggers and the feed cache (app.js), and the rate-limit governed  *)
(* request (twitterService.js getListTweets, makeRequestWithRetry +        *)
(* rateLimitManager.js).                                                   *)
(*                                                                         *)
(* Specifications:                                                         *)
(*   Spec         the scheduler with the poll cycle as an abstract         *)
(*                function that resolves with a number of new tweets or    *)
(*                rejects, and POST /refresh;                              *)
(*   SpecGov      concurrent makeRequestWithRetry calls over the           *)
(*                rate-limit ledger and a millisecond clock;               *)
(*   SpecGovFair  SpecGov with fewer calls, where every dispatched         *)
(*                operation settles and every due timer fires;             *)
(*   SpecFeed     GET /rss handlers over the feed document cache,          *)
(*                concurrent with poll cycles that save tweets;            *)
(*   SpecLedger   updateFromHeaders, recordRequest and canMakeRequest      *)
(*                applied to the ledger in any order;                      *)
(*   SpecStore    the operations of database.js applied to the tweets      *)
(*                and config tables in any order;                          *)
(*   SpecCron     the scheduler on a wall clock, its cron task firing at   *)
(*                the minutes its pattern names;                           *)
(*   SpecBackoff  calculateExponentialBackoff applied to every attempt     *)
(*                number and jitter value of the model.                    *)
(***************************************************************************)
EXTENDS Integers, Sequences, FiniteSets, TLC

\* ------------------------------------------------------------------------
\* Bounds of the model
\* ------------------------------------------------------------------------
MaxPolls == 3          \* poll-function invocations started through runFetch
MaxPersistFails == 1   \* setConfig failures injected
MaxManual == 1         \* POST /refresh requests accepted in a run
MaxClock == 1          \* minute ticks of the scheduler clock

MaxRequests == 2       \* GET /rss requests accepted in a run
MaxCycles == 1         \* poll cycles started by the scheduler and POST /refresh
MaxFeedFails == 1      \* rejections injected into a poll cycle or a GET /rss
MaxFeedClock == 2      \* one-second ticks of the feed clock

MaxCalls == 3          \* makeRequestWithRetry calls started in a run
MaxErrors == 3         \* operations the upstream rejects in a run
MaxFairCalls == 2      \* calls started in a run of the fair specification

\* null of JavaScript for timestamps and counters (all real values are >= 0)
Null == -1

\* constructor arguments (minInterval, maxInterval) the model draws from
IntervalConfigs == {<<1, 1>>, <<2, 3>>, <<3, 12>>}

\* result.newTweets values returned by the poll function
NewTweetCounts == {0, 4, 5, 9, 10}

\* ------------------------------------------------------------------------
\* Exact rationals <<numerator, denominator>> for the interval (minutes)
\* ------------------------------------------------------------------------
RECURSIVE GCD(_, _)
GCD(a, b) == IF b = 0 THEN a ELSE GCD(b, a % b)

Rat(n, d) == LET g == GCD(n, d) IN <<n \div g, d \div g>>
RatInt(n) == <<n, 1>>
RatMul(q, n, d) == Rat(q[1] * n, q[2] * d)
RatLeq(p, q) == p[1] * q[2] <= q[1] * p[2]
RatMax(p, q) == IF RatLeq(p, q) THEN q ELSE p
RatMin(p, q) == IF RatLeq(p, q) THEN p ELSE q
\* Math.round of a positive number: floor(x + 1/2)
RatRound(q) == (2 * q[1] + q[2]) \div (2 * q[2])

VARIABLES
  \* AdaptiveScheduler fields
  minInterval, maxInterval, currentInterval, isRunning,
  consecutiveEmptyFetches, lastFetchTime, task,
  \* runFetch executions: awaiting fetchFunction / awaiting setConfig
  fetching, persisting,
  \* database config rows written by runFetch
  config,
  \* app: POST /refresh handlers awaiting fetchAndUpdateFeed
  manualInFlight,
  \* the clock (Date.now(), milliseconds)
  now,
  \* bookkeeping: start() called, counters, last event and the state before it
  started, invoked, refreshes, persistFails, ev, pre,
  \* bookkeeping: polls that resolved with no new tweets since the last poll
  \* that resolved with some (or since construction)
  emptyPollsSinceNew,
  \* RateLimitManager: rateLimits map and isFreeTier
  ledger, isFreeTier,
  \* makeRequestWithRetry activations, one per caller
  proc,
  \* bookkeeping: the last canMakeRequest call, calls started, rejections
  lastCan, calls, errors,
  \* bookkeeping: the response the last governor step handled, if it was one
  lastOp,
  \* bookkeeping: the remaining count and reset time of the last header
  \* update, and the operations dispatched since, while that window is open
  budget,
  \* app: the tweets table (number of saved batches), the cached feed
  \* document and its timestamp, RSS_CACHE_TTL, the serverless flag
  store, cachedRSSFeed, lastCacheUpdate, cacheTimeout, isServerless,
  \* GET /rss handlers and fetchAndUpdateFeed activations
  rss, cycle,
  \* bookkeeping: the newest batch saved by a poll cycle that has returned,
  \* the last GET /rss response, counters
  published, served, requests, cycles, feedFails,
  \* database: the rows of the tweets table and the config table (key -> value)
  tweetRows, configRows,
  \* bookkeeping: per key, the value of the most recent setConfig
  lastSet,
  \* bookkeeping: the last ledger or database operation applied on its own,
  \* with its arguments, the state before it and its result
  applied

schedVars == <<minInterval, maxInterval, currentInterval, isRunning,
               consecutiveEmptyFetches, lastFetchTime, task, fetching,
               persisting, config, manualInFlight, started, invoked,
               refreshes, persistFails, ev, pre, emptyPollsSinceNew>>

govVars == <<ledger, isFreeTier, proc, lastCan, calls, errors, lastOp,
             budget>>

feedVars == <<store, cachedRSSFeed, lastCacheUpdate, cacheTimeout,
              isServerless, rss, cycle, published, served, requests, cycles,
              feedFails>>

unitVars == <<tweetRows, configRows, lastSet, applied>>

vars == <<schedVars, govVars, feedVars, unitVars, now>>

\* this.task: whether a cron task was created, whether it is still running,
\* its */every pattern and when it was armed; stale counts the tasks armed
\* earlier that were never stopped
NoTask == [exists |-> FALSE, active |-> FALSE, every |-> 0, stale |-> 0,
           armedAt |-> Null]
NoConfig == [last_fetch_time |-> Null, current_interval |-> <<0, 1>>,
             consecutive_empty_fetches |-> Null]

Snapshot == [interval |-> currentInterval, empty |-> consecutiveEmptyFetches,
             lastFetch |-> lastFetchTime, invoked |-> invoked,
             inFlight |-> fetching + manualInFlight]

Event(op, n, busy) == [op |-> op, n |-> n, busy |-> busy]

\* ------------------------------------------------------------------------
\* AdaptiveScheduler
\* ------------------------------------------------------------------------
\* constructor(database, twitterService, minInterval, maxInterval)
InitSchedFrom(configs) ==
  /\ \E c \in configs : minInterval = c[1] /\ maxInterval = c[2]
  /\ currentInterval = RatInt(minInterval)
  /\ task = NoTask
  /\ isRunning = FALSE
  /\ consecutiveEmptyFetches = 0
  /\ lastFetchTime = Null
  /\ fetching = 0
  /\ persisting = 0
  /\ config = NoConfig
  /\ manualInFlight = 0
  /\ started = FALSE
  /\ invoked = 0
  /\ refreshes = 0
  /\ persistFails = 0
  /\ emptyPollsSinceNew = 0
  /\ ev = Event("init", 0, FALSE)
  /\ pre = [interval |-> RatInt(minInterval), empty |-> 0, lastFetch |-> Null,
            invoked |-> 0, inFlight |-> 0]

InitSched == InitSchedFrom(IntervalConfigs)

\* runFetch: if (this.isRunning) return;
RunFetchSkipsMut(running) == FALSE
RunFetchSkipsAlways(running) == TRUE
RunFetchSkips(running) == running

\* adaptInterval(result)
AdaptIntervalMut(cur, empty, n) ==
  IF n > 0
  THEN [empty |-> 0,
        interval |-> IF n > 10 THEN RatMax(RatMul(cur, 4, 5), RatInt(minInterval))
                     ELSE IF n >= 5 THEN RatMax(RatMul(cur, 9, 10), RatInt(minInterval))
                     ELSE cur]
  ELSE [empty |-> empty + 1,
        interval |-> IF empty + 1 >= 3
                     THEN RatMin(RatMul(cur, 3, 2), RatInt(maxInterval))
                     ELSE RatMin(RatMul(cur, 6, 5), RatInt(maxInterval))]
AdaptIntervalSteep(cur, empty, n) ==
  IF n > 0
  THEN [empty |-> 0,
        interval |-> IF n >= 5 THEN RatMax(RatMul(cur, 4, 5), RatInt(minInterval))
                     ELSE cur]
  ELSE [empty |-> empty + 1,
        interval |-> IF empty + 1 >= 3
                     THEN RatMin(RatMul(cur, 3, 2), RatInt(maxInterval))
                     ELSE RatMin(RatMul(cur, 6, 5), RatInt(maxInterval))]
AdaptIntervalEager(cur, empty, n) ==
  IF n > 0
  THEN [empty |-> 0,
        interval |-> IF n >= 10 THEN RatMax(RatMul(cur, 4, 5), RatInt(minInterval))
                     ELSE RatMax(RatMul(cur, 9, 10), RatInt(minInterval))]
  ELSE [empty |-> empty + 1,
        interval |-> IF empty + 1 >= 3
                     THEN RatMin(RatMul(cur, 3, 2), RatInt(maxInterval))
                     ELSE RatMin(RatMul(cur, 6, 5), RatInt(maxInterval))]
AdaptIntervalEarly(cur, empty, n) ==
  IF n > 0
  THEN [empty |-> 0,
        interval |-> IF n >= 10 THEN RatMax(RatMul(cur, 4, 5), RatInt(minInterval))
                     ELSE IF n >= 5 THEN RatMax(RatMul(cur, 9, 10), RatInt(minInterval))
                     ELSE cur]
  ELSE [empty |-> empty + 1,
        interval |-> IF empty + 1 >= 2
                     THEN RatMin(RatMul(cur, 3, 2), RatInt(maxInterval))
                     ELSE RatMin(RatMul(cur, 6, 5), RatInt(maxInterval))]
AdaptIntervalKeeps(cur, empty, n) ==
  IF n >= 5
  THEN [empty |-> 0,
        interval |-> IF n >= 10 THEN RatMax(RatMul(cur, 4, 5), RatInt(minInterval))
                     ELSE RatMax(RatMul(cur, 9, 10), RatInt(minInterval))]
  ELSE IF n > 0
  THEN [empty |-> empty, interval |-> cur]
  ELSE [empty |-> empty + 1,
        interval |-> IF empty + 1 >= 3
                     THEN RatMin(RatMul(cur, 3, 2), RatInt(maxInterval))
                     ELSE RatMin(RatMul(cur, 6, 5), RatInt(maxInterval))]
AdaptInterval(cur, empty, n) ==
  IF n > 0
  THEN [empty |-> 0,
        interval |-> IF n >= 10 THEN RatMax(RatMul(cur, 4, 5), RatInt(minInterval))
                     ELSE IF n >= 5 THEN RatMax(RatMul(cur, 9, 10), RatInt(minInterval))
                     ELSE cur]
  ELSE [empty |-> empty + 1,
        interval |-> IF empty + 1 >= 3
                     THEN RatMin(RatMul(cur, 3, 2), RatInt(maxInterval))
                     ELSE IF empty + 1 >= 1
                     THEN RatMin(RatMul(cur, 6, 5), RatInt(maxInterval))
                     ELSE cur]

\* catch (error): this.currentInterval = Math.min(this.currentInterval * 1.2, this.maxInterval)
OnFetchErrorMut(cur) == RatMul(cur, 6, 5)
OnFetchErrorSteep(cur) == RatMin(RatMul(cur, 3, 2), RatInt(maxInterval))
OnFetchError(cur) == RatMin(RatMul(cur, 6, 5), RatInt(maxInterval))

\* scheduleNext: stop the existing task, arm a new one at */round(currentInterval)
ScheduleNextIdle(cur) ==
  [exists |-> TRUE, active |-> FALSE, every |-> RatRound(cur),
   stale |-> task.stale, armedAt |-> now]
ScheduleNextLeaks(cur) ==
  [exists |-> TRUE, active |-> TRUE, every |-> RatRound(cur),
   stale |-> task.stale + (IF task.active THEN 1 ELSE 0), armedAt |-> now]
ScheduleNext(cur) ==
  [exists |-> TRUE, active |-> TRUE, every |-> RatRound(cur),
   stale |-> task.stale, armedAt |-> now]

\* the synchronous head of runFetch, up to the await of fetchFunction
RunFetchHead ==
  IF RunFetchSkips(isRunning)
  THEN UNCHANGED <<isRunning, lastFetchTime, fetching, invoked>>
  ELSE /\ isRunning' = TRUE
       /\ lastFetchTime' = now
       /\ fetching' = fetching + 1
       /\ invoked' = invoked + 1

CanPoll == invoked < MaxPolls

\* start(fetchFunction): runFetch, then scheduleNext
Start ==
  /\ ~started
  /\ CanPoll
  /\ started' = TRUE
  /\ pre' = Snapshot
  /\ ev' = Event("runFetch", 0, isRunning)
  /\ RunFetchHead
  /\ task' = ScheduleNext(currentInterval)
  /\ UNCHANGED <<minInterval, maxInterval, currentInterval,
                 consecutiveEmptyFetches, persisting, config, manualInFlight,
                 refreshes, persistFails, now>>
  /\ UNCHANGED <<govVars, feedVars, unitVars, emptyPollsSinceNew>>

\* the cron task fires: () => this.runFetch(fetchFunction)
TimerFire ==
  /\ task.active
  /\ CanPoll
  /\ pre' = Snapshot
  /\ ev' = Event("runFetch", 0, isRunning)
  /\ RunFetchHead
  /\ UNCHANGED <<minInterval, maxInterval, currentInterval,
                 consecutiveEmptyFetches, task, persisting, config,
                 manualInFlight, started, refreshes, persistFails, now>>
  /\ UNCHANGED <<govVars, feedVars, unitVars, emptyPollsSinceNew>>

\* triggerManualFetch(fetchFunction): await this.runFetch(fetchFunction)
TriggerManualFetch ==
  /\ CanPoll
  /\ pre' = Snapshot
  /\ ev' = Event("runFetch", 0, isRunning)
  /\ RunFetchHead
  /\ UNCHANGED <<minInterval, maxInterval, currentInterval,
                 consecutiveEmptyFetches, task, persisting, config,
                 manualInFlight, started, refreshes, persistFails, now>>
  /\ UNCHANGED <<govVars, feedVars, unitVars, emptyPollsSinceNew>>

\* fetchFunction resolves with {newTweets: n}: adaptInterval, then the
\* first setConfig is awaited
FetchResolve(n) ==
  /\ fetching > 0
  /\ pre' = Snapshot
  /\ ev' = Event("resolve", n, FALSE)
  /\ LET a == AdaptInterval(currentInterval, consecutiveEmptyFetches, n)
     IN /\ currentInterval' = a.interval
        /\ consecutiveEmptyFetches' = a.empty
  /\ emptyPollsSinceNew' = IF n > 0 THEN 0 ELSE emptyPollsSinceNew + 1
  /\ fetching' = fetching - 1
  /\ persisting' = persisting + 1
  /\ UNCHANGED <<minInterval, maxInterval, isRunning, lastFetchTime, task,
                 config, manualInFlight, started, invoked, refreshes,
                 persistFails, now>>
  /\ UNCHANGED <<govVars, feedVars, unitVars>>

\* fetchFunction rejects: catch, then finally
FetchReject ==
  /\ fetching > 0
  /\ pre' = Snapshot
  /\ ev' = Event("reject", 0, FALSE)
  /\ currentInterval' = OnFetchError(currentInterval)
  /\ fetching' = fetching - 1
  /\ isRunning' = FALSE
  /\ task' = ScheduleNext(currentInterval')
  /\ UNCHANGED <<minInterval, maxInterval, consecutiveEmptyFetches,
                 lastFetchTime, persisting, config, manualInFlight, started,
                 invoked, refreshes, persistFails, now>>
  /\ UNCHANGED <<govVars, feedVars, unitVars, emptyPollsSinceNew>>

\* the three setConfig calls succeed, then finally
PersistDone ==
  /\ persisting > 0
  /\ pre' = Snapshot
  /\ ev' = Event("persisted", 0, FALSE)
  /\ config' = [last_fetch_time |-> lastFetchTime,
                current_interval |-> currentInterval,
                consecutive_empty_fetches |-> consecutiveEmptyFetches]
  /\ persisting' = persisting - 1
  /\ isRunning' = FALSE
  /\ task' = ScheduleNext(currentInterval)
  /\ UNCHANGED <<minInterval, maxInterval, currentInterval,
                 consecutiveEmptyFetches, lastFetchTime, fetching,
                 manualInFlight, started, invoked, refreshes, persistFails,
                 now>>
  /\ UNCHANGED <<govVars, feedVars, unitVars, emptyPollsSinceNew>>

\* setConfig number k+1 rejects after k writes went through: catch, finally
PersistFail(k) ==
  /\ persisting > 0
  /\ persistFails < MaxPersistFails
  /\ persistFails' = persistFails + 1
  /\ pre' = Snapshot
  /\ ev' = Event("persistFailed", k, FALSE)
  /\ config' = [last_fetch_time |->
                  IF k >= 1 THEN lastFetchTime ELSE config.last_fetch_time,
                current_interval |->
                  IF k >= 2 THEN currentInterval ELSE config.current_interval,
                consecutive_empty_fetches |-> config.consecutive_empty_fetches]
  /\ currentInterval' = OnFetchError(currentInterval)
  /\ persisting' = persisting - 1
  /\ isRunning' = FALSE
  /\ task' = ScheduleNext(currentInterval')
  /\ UNCHANGED <<minInterval, maxInterval, consecutiveEmptyFetches,
                 lastFetchTime, fetching, manualInFlight, started, invoked,
                 refreshes, now>>
  /\ UNCHANGED <<govVars, feedVars, unitVars, emptyPollsSinceNew>>

\* stop(): if (this.task) this.task.stop()
StopHalts ==
  /\ pre' = Snapshot
  /\ ev' = Event("stop", 0, FALSE)
  /\ task' = IF task.exists THEN [task EXCEPT !.active = FALSE] ELSE task
  /\ isRunning' = FALSE
  /\ UNCHANGED <<minInterval, maxInterval, currentInterval,
                 consecutiveEmptyFetches, lastFetchTime, fetching, persisting,
                 config, manualInFlight, started, invoked, refreshes,
                 persistFails, now>>
  /\ UNCHANGED <<govVars, feedVars, unitVars, emptyPollsSinceNew>>

Stop ==
  /\ pre' = Snapshot
  /\ ev' = Event("stop", 0, FALSE)
  /\ task' = IF task.exists THEN [task EXCEPT !.active = FALSE] ELSE task
  /\ UNCHANGED <<minInterval, maxInterval, currentInterval, isRunning,
                 consecutiveEmptyFetches, lastFetchTime, fetching, persisting,
                 config, manualInFlight, started, invoked, refreshes,
                 persistFails, now>>
  /\ UNCHANGED <<govVars, feedVars, unitVars, emptyPollsSinceNew>>

\* getStatus(): last_fetch_time and consecutive_empty_fetches are read from
\* the config rows, isRunning and currentInterval from the fields, and
\* nextFetchEstimate from the fields lastFetchTime and currentInterval
GetStatus ==
  [isRunning |-> isRunning,
   currentInterval |-> currentInterval,
   lastFetchTime |-> config.last_fetch_time,
   consecutiveEmptyFetches |->
     IF config.consecutive_empty_fetches = Null THEN 0
     ELSE config.consecutive_empty_fetches,
   nextFetchEstimate |->
     IF lastFetchTime # Null
     THEN lastFetchTime + (currentInterval[1] * 60000) \div currentInterval[2]
     ELSE now]

\* ------------------------------------------------------------------------
\* app.js: POST /refresh
\* ------------------------------------------------------------------------
\* const result = await this.fetchAndUpdateFeed();
Refresh ==
  /\ refreshes < MaxManual
  /\ refreshes' = refreshes + 1
  /\ pre' = Snapshot
  /\ ev' = Event("refresh", 0, fetching + manualInFlight > 0)
  /\ manualInFlight' = manualInFlight + 1
  /\ UNCHANGED <<minInterval, maxInterval, currentInterval, isRunning,
                 consecutiveEmptyFetches, lastFetchTime, task, fetching,
                 persisting, config, started, invoked, persistFails, now>>
  /\ UNCHANGED <<govVars, feedVars, unitVars, emptyPollsSinceNew>>

\* fetchAndUpdateFeed of a /refresh returns or throws; the response is sent
RefreshDone ==
  /\ manualInFlight > 0
  /\ pre' = Snapshot
  /\ ev' = Event("refreshDone", 0, FALSE)
  /\ manualInFlight' = manualInFlight - 1
  /\ UNCHANGED <<minInterval, maxInterval, currentInterval, isRunning,
                 consecutiveEmptyFetches, lastFetchTime, task, fetching,
                 persisting, config, started, invoked, refreshes,
                 persistFails, now>>
  /\ UNCHANGED <<govVars, feedVars, unitVars, emptyPollsSinceNew>>

\* a minute passes
Tick ==
  /\ now < MaxClock * 60000
  /\ now' = now + 60000
  /\ UNCHANGED <<schedVars, govVars, feedVars, unitVars>>

\* ------------------------------------------------------------------------
\* app.js: the feed document cache, GET /rss and the poll cycle
\* ------------------------------------------------------------------------
\* concurrent GET /rss handlers
Requests == {"rss1", "rss2"}

\* fetchAndUpdateFeed activations: the scheduler's, POST /refresh's, and in
\* serverless mode the one each GET /rss awaits
Cycles == {"scheduled", "manual"} \cup Requests

\* RSS_CACHE_TTL values (seconds) and the clock step (milliseconds)
CacheTtls == {1}
FeedStep == 1000

\* rssService.generateFeed(tweets, listInfo): one item per tweet read
GenerateFeed(tweets) == [items |-> tweets]

\* null in place of a document
NoDoc == [items |-> Null]

NoServed == [status |-> 0, doc |-> NoDoc, regenerated |-> FALSE, need |-> 0,
             hadCache |-> FALSE, age |-> Null]
IdleRequest == [pc |-> "idle", tweets |-> Null, regenerated |-> FALSE,
                need |-> 0, hadCache |-> FALSE, age |-> Null]
IdleCycle == [pc |-> "idle", n |-> 0, saved |-> 0]

\* new Database(): no rows; no operation applied yet
NotApplied == [op |-> "none"]
ConfigKeys == {"last_rss_update", "current_interval"}
InitTables ==
  /\ tweetRows = {}
  /\ configRows = [k \in ConfigKeys |-> Null]
  /\ lastSet = [k \in ConfigKeys |-> Null]
  /\ applied = NotApplied

\* cacheTimeout = parseInt(process.env.RSS_CACHE_TTL) || 300
DefaultCacheTtl == 300

\* constructor: cachedRSSFeed = null, lastCacheUpdate = null; empty store
InitCache ==
  /\ store = 0
  /\ cachedRSSFeed = NoDoc
  /\ lastCacheUpdate = Null
  /\ rss = [r \in Requests |-> IdleRequest]
  /\ cycle = [c \in Cycles |-> IdleCycle]
  /\ published = 0
  /\ served = NoServed
  /\ requests = 0
  /\ cycles = 0
  /\ feedFails = 0

\* cacheAge = lastCacheUpdate ? (now - lastCacheUpdate) / 1000 : Infinity;
\* the cache is used unless (!cachedRSSFeed || cacheAge > cacheTimeout)
CacheFreshMut(cached, last, t) ==
  /\ cached # NoDoc
  /\ last # Null /\ last # 0
  /\ t - last <= (cacheTimeout + 1) * 1000
CacheFresh(cached, last, t) ==
  /\ cached # NoDoc
  /\ last # Null /\ last # 0
  /\ ~(t - last > cacheTimeout * 1000)

\* the application's scheduler runs only outside serverless mode
CanStart(c) ==
  \/ c = "manual"
  \/ c = "scheduled" /\ ~isServerless

\* fetchAndUpdateFeed is called: getLatestTweetId, getListTweets are awaited
CycleBegin(c) == [cycle EXCEPT ![c] = [pc |-> "fetching", n |-> 0, saved |-> 0]]

CycleStart(c) ==
  /\ CanStart(c)
  /\ cycle[c].pc = "idle"
  /\ cycles < MaxCycles
  /\ cycles' = cycles + 1
  /\ cycle' = CycleBegin(c)
  /\ UNCHANGED <<store, cachedRSSFeed, lastCacheUpdate, cacheTimeout,
                 isServerless, rss, published, served, requests, feedFails>>
  /\ UNCHANGED <<schedVars, govVars, unitVars, now>>

\* getListTweets resolved with no tweets: getTweetCount is awaited
CycleEmpty(c) ==
  /\ cycle[c].pc = "fetching"
  /\ cycle' = [cycle EXCEPT ![c].pc = "counting"]
  /\ UNCHANGED <<store, cachedRSSFeed, lastCacheUpdate, cacheTimeout,
                 isServerless, rss, published, served, requests, cycles,
                 feedFails>>
  /\ UNCHANGED <<schedVars, govVars, unitVars, now>>

\* getListTweets resolved with n > 0 tweets: saveTweets is awaited
CycleFetched(c, n) ==
  /\ cycle[c].pc = "fetching"
  /\ n > 0
  /\ cycle' = [cycle EXCEPT ![c].pc = "saving", ![c].n = n]
  /\ UNCHANGED <<store, cachedRSSFeed, lastCacheUpdate, cacheTimeout,
                 isServerless, rss, published, served, requests, cycles,
                 feedFails>>
  /\ UNCHANGED <<schedVars, govVars, unitVars, now>>

\* saveTweets resolved: the cache is cleared, getTweetCount is awaited
CycleSaved(c) ==
  /\ cycle[c].pc = "saving"
  /\ store' = store + 1
  /\ cachedRSSFeed' = NoDoc
  /\ lastCacheUpdate' = Null
  /\ cycle' = [cycle EXCEPT ![c].pc = "counting", ![c].saved = store + 1]
  /\ UNCHANGED <<cacheTimeout, isServerless, rss, published, served, requests,
                 cycles, feedFails>>
  /\ UNCHANGED <<schedVars, govVars, unitVars, now>>

\* the response of a GET /rss handler, with what it saw when it arrived
Respond(q, status, doc) ==
  [status |-> status, doc |-> doc, regenerated |-> q.regenerated,
   need |-> q.need, hadCache |-> q.hadCache, age |-> q.age]

\* getTweetCount resolved: fetchAndUpdateFeed returns; a GET /rss that
\* awaited it goes on to generateRSSFeed and awaits getTweets
CycleDone(c) ==
  /\ cycle[c].pc = "counting"
  /\ published' = IF cycle[c].n > 0 /\ cycle[c].saved > published
                  THEN cycle[c].saved ELSE published
  /\ cycle' = [cycle EXCEPT ![c] = IdleCycle]
  /\ rss' = IF c \in Requests THEN [rss EXCEPT ![c].pc = "reading"] ELSE rss
  /\ UNCHANGED <<store, cachedRSSFeed, lastCacheUpdate, cacheTimeout,
                 isServerless, served, requests, cycles, feedFails>>
  /\ UNCHANGED <<schedVars, govVars, unitVars, now>>

\* getListTweets rejected: fetchAndUpdateFeed rethrows; a GET /rss that
\* awaited it answers 500
CycleFail(c) ==
  /\ cycle[c].pc = "fetching"
  /\ feedFails < MaxFeedFails
  /\ feedFails' = feedFails + 1
  /\ cycle' = [cycle EXCEPT ![c] = IdleCycle]
  /\ IF c \in Requests
     THEN /\ served' = Respond(rss[c], 500, NoDoc)
          /\ rss' = [rss EXCEPT ![c] = IdleRequest]
     ELSE UNCHANGED <<served, rss>>
  /\ UNCHANGED <<store, cachedRSSFeed, lastCacheUpdate, cacheTimeout,
                 isServerless, published, requests, cycles>>
  /\ UNCHANGED <<schedVars, govVars, unitVars, now>>

\* GET /rss arrives: the cache check, then either res.send(cachedRSSFeed)
\* or the first await of the regeneration
RssArrive(r) ==
  /\ rss[r].pc = "idle"
  /\ requests < MaxRequests
  /\ requests' = requests + 1
  /\ LET q == [IdleRequest EXCEPT
                 !.need = published,
                 !.hadCache = cachedRSSFeed # NoDoc,
                 !.age = IF lastCacheUpdate = Null THEN Null
                         ELSE now - lastCacheUpdate]
     IN IF CacheFresh(cachedRSSFeed, lastCacheUpdate, now)
        THEN /\ served' = Respond(q, 200, cachedRSSFeed)
             /\ UNCHANGED <<rss, cycle>>
        ELSE IF isServerless
        THEN /\ rss' = [rss EXCEPT ![r] = [q EXCEPT !.pc = "polling"]]
             /\ cycle' = CycleBegin(r)
             /\ UNCHANGED served
        ELSE /\ rss' = [rss EXCEPT ![r] = [q EXCEPT !.pc = "reading"]]
             /\ UNCHANGED <<served, cycle>>
  /\ UNCHANGED <<store, cachedRSSFeed, lastCacheUpdate, cacheTimeout,
                 isServerless, published, cycles, feedFails>>
  /\ UNCHANGED <<schedVars, govVars, unitVars, now>>

\* database.getTweets runs its query
RssRead(r) ==
  /\ rss[r].pc = "reading"
  /\ rss' = [rss EXCEPT ![r].pc = "read", ![r].tweets = store]
  /\ UNCHANGED <<store, cachedRSSFeed, lastCacheUpdate, cacheTimeout,
                 isServerless, cycle, published, served, requests, cycles,
                 feedFails>>
  /\ UNCHANGED <<schedVars, govVars, unitVars, now>>

\* getTweets resolved: the document is generated and cached, lastCacheUpdate
\* is stamped, setConfig('last_rss_update') is awaited
RssGenerated(r) ==
  /\ rss[r].pc = "read"
  /\ cachedRSSFeed' = GenerateFeed(rss[r].tweets)
  /\ lastCacheUpdate' = now
  /\ rss' = [rss EXCEPT ![r].pc = "stamping", ![r].regenerated = TRUE]
  /\ UNCHANGED <<store, cacheTimeout, isServerless, cycle, published, served,
                 requests, cycles, feedFails>>
  /\ UNCHANGED <<schedVars, govVars, unitVars, now>>

\* setConfig resolved: generateRSSFeed returns, res.send(this.cachedRSSFeed)
RssSend(r) ==
  /\ rss[r].pc = "stamping"
  /\ served' = Respond(rss[r], 200, cachedRSSFeed)
  /\ rss' = [rss EXCEPT ![r] = IdleRequest]
  /\ UNCHANGED <<store, cachedRSSFeed, lastCacheUpdate, cacheTimeout,
                 isServerless, cycle, published, requests, cycles, feedFails>>
  /\ UNCHANGED <<schedVars, govVars, unitVars, now>>

\* getTweets or setConfig rejected: generateRSSFeed rethrows, 500 is sent
RssFail(r) ==
  /\ rss[r].pc \in {"reading", "stamping"}
  /\ feedFails < MaxFeedFails
  /\ feedFails' = feedFails + 1
  /\ served' = Respond(rss[r], 500, NoDoc)
  /\ rss' = [rss EXCEPT ![r] = IdleRequest]
  /\ UNCHANGED <<store, cachedRSSFeed, lastCacheUpdate, cacheTimeout,
                 isServerless, cycle, published, requests, cycles>>
  /\ UNCHANGED <<schedVars, govVars, unitVars, now>>

\* Date.now() when the application is constructed
FeedStart == 1000

\* a second passes
FeedTick ==
  /\ now < FeedStart + MaxFeedClock * FeedStep
  /\ now' = now + FeedStep
  /\ UNCHANGED <<schedVars, govVars, feedVars, unitVars>>

\* ------------------------------------------------------------------------
\* rateLimitManager.js: the quota ledger
\* ------------------------------------------------------------------------
Callers == {1, 2}

\* the endpoint of getListTweets, the one call the scheduled poll and a
\* POST /refresh make concurrently
Endpoints == {"/2/lists/:id/tweets"}

\* normalizeEndpoint on the endpoint strings the service uses:
\* /\/\d+/g -> '/:id', then /users/x/ and /lists/x/ -> /users/:id/, /lists/:id/
NormalizeEndpoint(e) ==
  CASE e = "/2/lists/:id/tweets" -> "/:id/lists/:id/tweets"
    [] e = "/2/lists/:id" -> "/:id/lists/:id"
    [] e = "/2/users/:id" -> "/:id/users/:id"
    [] e = "/2/users/me" -> "/:id/users/me"

Keys == {NormalizeEndpoint(e) : e \in Endpoints}

\* parseInt of a missing or non-numeric header
NaN == -2

\* Map.get(key) === undefined
NoRec == [has |-> FALSE, limit |-> 0, remaining |-> 0, reset |-> 0,
          lastUpdated |-> 0]

MaxOf(a, b) == IF a >= b THEN a ELSE b
MinOf(a, b) == IF a <= b THEN a ELSE b

RECURSIVE Pow2(_)
Pow2(n) == IF n = 0 THEN 1 ELSE 2 * Pow2(n - 1)

\* updateFromHeaders(endpoint, headers) at time t; h.reset is epoch seconds
UpdateFromHeadersPartial(l, e, h, t) ==
  IF h.limit # NaN /\ h.remaining # NaN
  THEN [l EXCEPT ![NormalizeEndpoint(e)] =
          [has |-> TRUE, limit |-> h.limit, remaining |-> h.remaining,
           reset |-> IF h.reset = NaN THEN NaN ELSE h.reset * 1000,
           lastUpdated |-> t]]
  ELSE l

UpdateFromHeaders(l, e, h, t) ==
  IF h.limit # NaN /\ h.remaining # NaN /\ h.reset # NaN
  THEN [l EXCEPT ![NormalizeEndpoint(e)] =
          [has |-> TRUE, limit |-> h.limit, remaining |-> h.remaining,
           reset |-> h.reset * 1000, lastUpdated |-> t]]
  ELSE l

\* canMakeRequest(endpoint) at time t: the result and the ledger it leaves
CanMakeRequestMut(l, e, t) ==
  LET k == NormalizeEndpoint(e)
      r == l[k]
  IN IF r.has
     THEN IF t >= r.reset
          THEN [canRequest |-> TRUE, waitTime |-> 0, reason |-> "window_reset",
                resetTime |-> Null, ledger |-> [l EXCEPT ![k] = NoRec]]
          ELSE IF r.remaining < 0
          THEN [canRequest |-> FALSE, waitTime |-> MaxOf(r.reset - t, 0),
                reason |-> "rate_limit_exceeded", resetTime |-> r.reset,
                ledger |-> l]
          ELSE [canRequest |-> TRUE, waitTime |-> 0, reason |-> "within_limits",
                resetTime |-> Null, ledger |-> l]
     ELSE [canRequest |-> TRUE, waitTime |-> 0, reason |-> "no_limit_info",
           resetTime |-> Null, ledger |-> l]
CanMakeRequestKeeps(l, e, t) ==
  LET k == NormalizeEndpoint(e)
      r == l[k]
  IN IF r.has
     THEN IF t >= r.reset
          THEN [canRequest |-> TRUE, waitTime |-> 0, reason |-> "window_reset",
                resetTime |-> Null, ledger |-> l]
          ELSE IF r.remaining <= 0
          THEN [canRequest |-> FALSE, waitTime |-> MaxOf(r.reset - t, 0),
                reason |-> "rate_limit_exceeded", resetTime |-> r.reset,
                ledger |-> l]
          ELSE [canRequest |-> TRUE, waitTime |-> 0, reason |-> "within_limits",
                resetTime |-> Null, ledger |-> l]
     ELSE [canRequest |-> TRUE, waitTime |-> 0, reason |-> "no_limit_info",
           resetTime |-> Null, ledger |-> l]
CanMakeRequest(l, e, t) ==
  LET k == NormalizeEndpoint(e)
      r == l[k]
  IN IF r.has
     THEN IF t >= r.reset
          THEN [canRequest |-> TRUE, waitTime |-> 0, reason |-> "window_reset",
                resetTime |-> Null, ledger |-> [l EXCEPT ![k] = NoRec]]
          ELSE IF r.remaining <= 0
          THEN [canRequest |-> FALSE, waitTime |-> MaxOf(r.reset - t, 0),
                reason |-> "rate_limit_exceeded", resetTime |-> r.reset,
                ledger |-> l]
          ELSE [canRequest |-> TRUE, waitTime |-> 0, reason |-> "within_limits",
                resetTime |-> Null, ledger |-> l]
     ELSE [canRequest |-> TRUE, waitTime |-> 0, reason |-> "no_limit_info",
           resetTime |-> Null, ledger |-> l]

\* recordRequest(endpoint)
RecordRequestBlind(l, e) ==
  LET k == NormalizeEndpoint(e)
  IN IF l[k].has
     THEN [l EXCEPT ![k].remaining = @ - 1]
     ELSE l

RecordRequestForgets(l, e) ==
  LET k == NormalizeEndpoint(e)
  IN IF l[k].has /\ l[k].remaining > 0
     THEN IF l[k].remaining = 1
          THEN [l EXCEPT ![k] = NoRec]
          ELSE [l EXCEPT ![k].remaining = @ - 1]
     ELSE l
RecordRequest(l, e) ==
  LET k == NormalizeEndpoint(e)
  IN IF l[k].has /\ l[k].remaining > 0
     THEN [l EXCEPT ![k].remaining = @ - 1]
     ELSE l

\* Math.random() is j / JitterDen for j in JitterSteps
JitterDen == 20
JitterSteps == {0, 15}

\* Math.random() = 1/2: the jitter is zero
ZeroJitter == JitterDen \div 2

CalculateExponentialBackoffLinear(attempt, j) ==
  LET baseDelay == IF isFreeTier THEN 10 * 60 * 1000 ELSE 5 * 60 * 1000
      maxDelay == IF isFreeTier THEN 120 * 60 * 1000 ELSE 60 * 60 * 1000
      delay == MinOf(baseDelay * (attempt + 1), maxDelay)
      jitter == (delay * (2 * j - JitterDen)) \div (10 * JitterDen)
      minimumDelay == IF isFreeTier THEN 5 * 60 * 1000 ELSE 60 * 1000
  IN MaxOf(delay + jitter, minimumDelay)

\* calculateExponentialBackoff(attempt) with Math.random() = j / JitterDen
CalculateExponentialBackoff(attempt, j) ==
  LET baseDelay == IF isFreeTier THEN 10 * 60 * 1000 ELSE 5 * 60 * 1000
      maxDelay == IF isFreeTier THEN 120 * 60 * 1000 ELSE 60 * 60 * 1000
      delay == MinOf(baseDelay * Pow2(attempt), maxDelay)
      jitter == (delay * (2 * j - JitterDen)) \div (10 * JitterDen)
      minimumDelay == IF isFreeTier THEN 5 * 60 * 1000 ELSE 60 * 1000
  IN MaxOf(delay + jitter, minimumDelay)

\* what the last canMakeRequest call saw and answered
Observed(l, e, c) ==
  LET k == NormalizeEndpoint(e)
  IN [called |-> TRUE, had |-> l[k].has, remaining |-> l[k].remaining,
      untilReset |-> IF l[k].has THEN l[k].reset - now ELSE 0,
      canRequest |-> c.canRequest, waitTime |-> c.waitTime,
      hasAfter |-> c.ledger[k].has]

NoObservation ==
  [called |-> FALSE, had |-> FALSE, remaining |-> 0, untilReset |-> 0,
   canRequest |-> TRUE, waitTime |-> 0, hasAfter |-> FALSE]

\* the claim's case: a record with remaining = 0 whose window is still open
Exhausted(l, e, t) ==
  LET r == l[NormalizeEndpoint(e)]
  IN r.has /\ r.remaining = 0 /\ t < r.reset

\* ------------------------------------------------------------------------
\* twitterService.js: makeRequestWithRetry
\* ------------------------------------------------------------------------
\* maxRetries the model calls with (the default is 2)
RetryChoices == {0, 2}

\* error.code of a rejected operation; 0 stands for an error without a code
ErrorCodes == {429, 404, 401, 500, 0}

NoErr == [code |-> 0, at |-> Null]

\* what getListTweets has returned or thrown: nothing yet, a tweet list, or
\* an error with its message and code (0: no code)
NoOutcome == [kind |-> "none", message |-> "", code |-> 0]
TweetList == [kind |-> "tweets", message |-> "", code |-> 0]

IdleProc ==
  [pc |-> "idle", ep |-> "/2/lists/:id/tweets", mr |-> 0, attempt |-> 0,
   wakeAt |-> 0, err |-> NoErr, inv |-> 0, out |-> NoOutcome]

\* getListTweets catch (error): 429, 404 and 401 are replaced by a new Error
\* with a fixed message, any other error is rethrown as it is
TranslateErrorMut(code) ==
  IF code = 429
  THEN [kind |-> "error", message |-> "Rate limit exceeded. Will retry later.",
        code |-> 0]
  ELSE IF code = 401
  THEN [kind |-> "error",
        message |-> "Unauthorized. Please check your Twitter API credentials.",
        code |-> 0]
  ELSE [kind |-> "error", message |-> "upstream", code |-> code]
TranslateError(code) ==
  IF code = 429
  THEN [kind |-> "error", message |-> "Rate limit exceeded. Will retry later.",
        code |-> 0]
  ELSE IF code = 404
  THEN [kind |-> "error", message |-> "List not found. Please check the list ID.",
        code |-> 0]
  ELSE IF code = 401
  THEN [kind |-> "error",
        message |-> "Unauthorized. Please check your Twitter API credentials.",
        code |-> 0]
  ELSE [kind |-> "error", message |-> "upstream", code |-> code]

\* makeRequestWithRetry throws lastError into the catch of getListTweets
Raise(q) == [q EXCEPT !.pc = "raised", !.out = TranslateError(q.err.code)]

\* makeRequestWithRetry returns the response: getListTweets returns [] or the
\* mapped tweets
Return(q) == [q EXCEPT !.pc = "returned", !.out = TweetList]

\* x-rate-limit-reset values (seconds after now) the upstream answers with
WindowSecs == {5}

NoHeaders == [has |-> FALSE, limit |-> NaN, remaining |-> NaN, reset |-> NaN]
Hdr(li, re, rs) == [has |-> TRUE, limit |-> li, remaining |-> re, reset |-> rs]

\* rate-limit information of the responses the upstream may give at time t
OkResponses(t) ==
  {NoHeaders}
  \cup {Hdr(1, 0, (t \div 1000) + w) : w \in WindowSecs}
  \cup {Hdr(3, 2, (t \div 1000) + w) : w \in WindowSecs}
  \cup {Hdr(2, 1, NaN), Hdr(2, NaN, (t \div 1000) + 5),
        Hdr(0, 0, (t \div 1000) + 5)}

\* if (rateLimitHeaders['x-rate-limit-limit'])
HeaderLimitTruthy(h) == h.has /\ h.limit # NaN /\ h.limit # 0

\* while (attempt <= maxRetries)
LoopContinuesAlways(attempt, maxRetries) == TRUE
LoopContinuesMut(attempt, maxRetries) == attempt < maxRetries
LoopContinues(attempt, maxRetries) == attempt <= maxRetries

\* if (error.code === 429)
IsRateLimitErrorMut(code) == code \in {429, 0}
IsRateLimitError(code) == code = 429

\* the last step settled no operation / settled the operation of caller p:
\* the rate-limit information h of its response or its error code, and the
\* ledger record of the endpoint before the step
NoOp == [kind |-> "none", p |-> 0, h |-> NoHeaders, code |-> 0, before |-> NoRec]
Settles(kind, p, h, code) ==
  [kind |-> kind, p |-> p, h |-> h, code |-> code,
   before |-> ledger[NormalizeEndpoint(proc[p].ep)]]

\* const response = await requestFunction();
\* waitForRateLimit: await this.sleep(waitTime + 1000), as the time it ends
SleepUntilExact(waitTime) == now + waitTime
SleepUntil(waitTime) == now + waitTime + 1000

NoBudget == [has |-> FALSE, remaining |-> 0, reset |-> 0, dispatched |-> 0]

\* the callers whose operation this step dispatches
DispatchedNow ==
  {p \in Callers : /\ proc'[p].pc = "inflight"
                   /\ (proc[p].pc # "inflight" \/ proc'[p].inv # proc[p].inv)}

\* the dispatches of this step are counted while the window is open
Counted(b) ==
  IF b.has /\ now < b.reset
  THEN [b EXCEPT !.dispatched = @ + Cardinality(DispatchedNow)]
  ELSE NoBudget

\* updateFromHeaders stored the record of headers h
HeadersStored(h) ==
  /\ HeaderLimitTruthy(h)
  /\ h.remaining # NaN
  /\ h.reset # NaN

Dispatch(q) ==
  [q EXCEPT !.pc = "inflight", !.inv = @ + 1, !.wakeAt = 0]

\* the loop head with activation record q and ledger l: the loop test, then
\* waitForRateLimit up to its sleep, then the dispatch of the operation
BeginAttempt(p, q, l) ==
  IF ~LoopContinues(q.attempt, q.mr)
  THEN /\ proc' = [proc EXCEPT ![p] = Raise(q)]
       /\ ledger' = l
       /\ UNCHANGED lastCan
  ELSE LET c == CanMakeRequest(l, q.ep, now)
       IN /\ ledger' = c.ledger
          /\ lastCan' = Observed(l, q.ep, c)
          /\ IF ~c.canRequest /\ c.waitTime > 0
             THEN proc' = [proc EXCEPT ![p] =
                             [q EXCEPT !.pc = "waitSleep",
                                       !.wakeAt = SleepUntil(c.waitTime)]]
             ELSE proc' = [proc EXCEPT ![p] = Dispatch(q)]

\* makeRequestWithRetry(endpoint, requestFunction, maxRetries) is called
Call(p, e, mr) ==
  /\ proc[p].pc \in {"idle", "returned", "raised"}
  /\ calls < MaxCalls
  /\ calls' = calls + 1
  /\ BeginAttempt(p, [IdleProc EXCEPT !.ep = e, !.mr = mr], ledger)
  /\ lastOp' = NoOp
  /\ budget' = Counted(budget)
  /\ UNCHANGED <<schedVars, feedVars, unitVars, isFreeTier, errors, now>>

\* the sleep of waitForRateLimit ends: the operation is dispatched
WakeWait(p) ==
  /\ proc[p].pc = "waitSleep"
  /\ now >= proc[p].wakeAt
  /\ proc' = [proc EXCEPT ![p] = Dispatch(proc[p])]
  /\ lastOp' = NoOp
  /\ budget' = Counted(budget)
  /\ UNCHANGED <<schedVars, feedVars, unitVars, ledger, isFreeTier, lastCan, calls, errors, now>>

\* catch (error) with error.code = code, on ledger l
Catch(p, code, l) ==
  LET q == [proc[p] EXCEPT !.err = [code |-> code, at |-> proc[p].attempt]]
  IN IF IsRateLimitError(code)
     THEN IF q.attempt < q.mr
          THEN \* handleRetryDelay(endpoint, attempt, error)
               LET c == CanMakeRequest(l, q.ep, now)
               IN IF ~c.canRequest /\ c.resetTime # Null
                  THEN \* waitForRateLimit(endpoint)
                       LET c2 == CanMakeRequest(c.ledger, q.ep, now)
                       IN IF ~c2.canRequest /\ c2.waitTime > 0
                          THEN /\ proc' = [proc EXCEPT ![p] =
                                    [q EXCEPT !.pc = "retrySleep",
                                              !.wakeAt = SleepUntil(c2.waitTime)]]
                               /\ ledger' = c2.ledger
                               /\ lastCan' = Observed(c.ledger, q.ep, c2)
                          ELSE BeginAttempt(p, [q EXCEPT !.attempt = @ + 1],
                                            c2.ledger)
                  ELSE \E j \in JitterSteps :
                         /\ proc' = [proc EXCEPT ![p] =
                              [q EXCEPT !.pc = "retrySleep",
                                        !.wakeAt = now +
                                          CalculateExponentialBackoff(q.attempt, j)]]
                         /\ ledger' = c.ledger
                         /\ lastCan' = Observed(l, q.ep, c)
          ELSE BeginAttempt(p, [q EXCEPT !.attempt = @ + 1], l)
     ELSE \* break; throw lastError
          /\ proc' = [proc EXCEPT ![p] = Raise(q)]
          /\ ledger' = l
          /\ UNCHANGED lastCan

\* the operation resolves with a response whose rate-limit information is h
RespondOk(p, h) ==
  /\ proc[p].pc = "inflight"
  /\ LET l1 == IF HeaderLimitTruthy(h)
               THEN UpdateFromHeaders(ledger, proc[p].ep, h, now)
               ELSE ledger
     IN IF HeaderLimitTruthy(h) /\ h.reset = NaN
        THEN \* new Date(NaN).toISOString() throws a RangeError in the try block
             Catch(p, 0, l1)
        ELSE /\ ledger' = RecordRequest(l1, proc[p].ep)
             /\ proc' = [proc EXCEPT ![p] = Return(proc[p])]
             /\ UNCHANGED lastCan
  /\ lastOp' = Settles("ok", p, h, 0)
  /\ budget' = IF HeadersStored(h)
               THEN [has |-> TRUE, remaining |-> h.remaining,
                     reset |-> h.reset * 1000, dispatched |-> 0]
               ELSE Counted(budget)
  /\ UNCHANGED <<schedVars, feedVars, unitVars, isFreeTier, calls, errors, now>>

\* the operation rejects with an error whose code is code
RespondErr(p, code) ==
  /\ proc[p].pc = "inflight"
  /\ errors < MaxErrors
  /\ errors' = errors + 1
  /\ Catch(p, code, ledger)
  /\ lastOp' = Settles("err", p, NoHeaders, code)
  /\ budget' = Counted(budget)
  /\ UNCHANGED <<schedVars, feedVars, unitVars, isFreeTier, calls, now>>

\* the sleep of handleRetryDelay ends: attempt++, next iteration
WakeRetry(p) ==
  /\ proc[p].pc = "retrySleep"
  /\ now >= proc[p].wakeAt
  /\ BeginAttempt(p, [proc[p] EXCEPT !.attempt = @ + 1], ledger)
  /\ lastOp' = NoOp
  /\ budget' = Counted(budget)
  /\ UNCHANGED <<schedVars, feedVars, unitVars, isFreeTier, calls, errors, now>>

Sleeping(p) == proc[p].pc \in {"waitSleep", "retrySleep"}

\* time passes until the next timer is due
AdvanceToWake ==
  LET due == {proc[p].wakeAt : p \in {c \in Callers : Sleeping(c) /\ proc[c].wakeAt > now}}
  IN /\ due # {}
     /\ now' = CHOOSE t \in due : \A u \in due : t <= u
     /\ lastOp' = NoOp
     /\ budget' = IF budget.has /\ now' < budget.reset THEN budget ELSE NoBudget
     /\ UNCHANGED <<schedVars, feedVars, unitVars, ledger, isFreeTier, proc, lastCan,
                    calls, errors>>

\* time passes until a window recorded in the ledger rolls over
AdvanceToReset ==
  /\ \E k \in Keys : /\ ledger[k].has
                    /\ ledger[k].reset > now
                    /\ now' = ledger[k].reset
  /\ lastOp' = NoOp
  /\ budget' = IF budget.has /\ now' < budget.reset THEN budget ELSE NoBudget
  /\ UNCHANGED <<schedVars, feedVars, unitVars, ledger, isFreeTier, proc, lastCan, calls,
                 errors>>

\* new RateLimitManager()
InitLedger ==
  /\ ledger = [k \in Keys |-> NoRec]
  /\ proc = [p \in Callers |-> IdleProc]
  /\ lastCan = NoObservation
  /\ lastOp = NoOp
  /\ budget = NoBudget
  /\ calls = 0
  /\ errors = 0

Init ==
  /\ InitSched
  /\ InitLedger
  /\ isFreeTier = FALSE
  /\ InitCache
  /\ InitTables
  /\ cacheTimeout = DefaultCacheTtl
  /\ isServerless = FALSE
  /\ now = 0

Next ==
  \/ Start
  \/ TimerFire
  \/ TriggerManualFetch
  \/ \E n \in NewTweetCounts : FetchResolve(n)
  \/ FetchReject
  \/ PersistDone
  \/ \E k \in 0..2 : PersistFail(k)
  \/ Stop
  \/ Refresh
  \/ RefreshDone
  \/ Tick

Spec == Init /\ [][Next]_vars

\* Date.now() when the service is constructed (milliseconds into a second)
StartClock == 400

\* the governor on its own: the scheduler stays as constructed
InitGov ==
  /\ InitSched
  /\ minInterval = 1
  /\ InitLedger
  /\ isFreeTier = FALSE
  /\ InitCache
  /\ InitTables
  /\ cacheTimeout = DefaultCacheTtl
  /\ isServerless = FALSE
  /\ now = StartClock

ProcStep(p) ==
  \/ WakeWait(p)
  \/ WakeRetry(p)
  \/ \E h \in OkResponses(now) : RespondOk(p, h)
  \/ \E code \in ErrorCodes : RespondErr(p, code)

NextGov ==
  \/ \E p \in Callers, e \in Endpoints, mr \in RetryChoices : Call(p, e, mr)
  \/ \E p \in Callers : WakeWait(p)
  \/ \E p \in Callers, h \in OkResponses(now) : RespondOk(p, h)
  \/ \E p \in Callers, code \in ErrorCodes : RespondErr(p, code)
  \/ \E p \in Callers : WakeRetry(p)
  \/ AdvanceToWake
  \/ AdvanceToReset

SpecGov == InitGov /\ [][NextGov]_vars

\* a call in the fair specification
FairCall(p, e, mr) ==
  /\ calls < MaxFairCalls
  /\ Call(p, e, mr)

NextGovFair ==
  \/ \E p \in Callers, e \in Endpoints, mr \in RetryChoices : FairCall(p, e, mr)
  \/ \E p \in Callers : WakeWait(p)
  \/ \E p \in Callers, h \in OkResponses(now) : RespondOk(p, h)
  \/ \E p \in Callers, code \in ErrorCodes : RespondErr(p, code)
  \/ \E p \in Callers : WakeRetry(p)
  \/ AdvanceToWake
  \/ AdvanceToReset

\* every dispatched operation settles and every due timer fires
SpecGovFair ==
  /\ InitGov
  /\ [][NextGovFair]_vars
  /\ \A p \in Callers : WF_vars(ProcStep(p))
  /\ WF_vars(AdvanceToWake)

\* the feed cache on its own: the scheduler and the ledger stay as constructed
InitFeed ==
  /\ InitSched
  /\ minInterval = 1
  /\ InitLedger
  /\ isFreeTier = FALSE
  /\ InitCache
  /\ InitTables
  /\ cacheTimeout \in CacheTtls
  /\ isServerless \in BOOLEAN
  /\ now = FeedStart

NextFeed ==
  \/ \E c \in {"scheduled", "manual"} : CycleStart(c)
  \/ \E c \in Cycles : CycleEmpty(c)
  \/ \E c \in Cycles : CycleFetched(c, 1)
  \/ \E c \in Cycles : CycleSaved(c)
  \/ \E c \in Cycles : CycleDone(c)
  \/ \E c \in Cycles : CycleFail(c)
  \/ \E r \in Requests : RssArrive(r)
  \/ \E r \in Requests : RssRead(r)
  \/ \E r \in Requests : RssGenerated(r)
  \/ \E r \in Requests : RssSend(r)
  \/ \E r \in Requests : RssFail(r)
  \/ FeedTick

SpecFeed == InitFeed /\ [][NextFeed]_vars

----------------------------------------------------------------------------
\* The scheduler on a wall clock: the cron task of scheduleNext fires at the
\* minutes of the hour that its pattern names (scheduler.js with node-cron)

MaxCronClock == 10

\* min/max intervals: a short one and the defaults of app.js
CronConfigs == {<<5, 20>>, <<60, 480>>}

Minute == 60000

\* the service is constructed 52 minutes into an hour
CronStart == 52 * Minute

MinuteOfHour(t) == (t \div Minute) % 60

\* the minute field "*/N": the minutes 0..59 that N divides
CronMatches(every, m) == every > 0 /\ m % every = 0

InitCron ==
  /\ InitSchedFrom(CronConfigs)
  /\ InitLedger
  /\ isFreeTier = FALSE
  /\ InitCache
  /\ InitTables
  /\ cacheTimeout = DefaultCacheTtl
  /\ isServerless = FALSE
  /\ now = CronStart

\* a minute passes; a running task whose pattern names the new minute calls
\* runFetch
CronMinute ==
  /\ now < CronStart + MaxCronClock * Minute
  /\ now' = now + Minute
  /\ IF task.active /\ CronMatches(task.every, MinuteOfHour(now'))
     THEN /\ CanPoll
          /\ pre' = Snapshot
          /\ ev' = Event("cronFetch", task.every, isRunning)
          /\ IF RunFetchSkips(isRunning)
             THEN UNCHANGED <<isRunning, lastFetchTime, fetching, invoked>>
             ELSE /\ isRunning' = TRUE
                  /\ lastFetchTime' = now'
                  /\ fetching' = fetching + 1
                  /\ invoked' = invoked + 1
     ELSE UNCHANGED <<pre, ev, isRunning, lastFetchTime, fetching, invoked>>
  /\ UNCHANGED <<minInterval, maxInterval, currentInterval,
                 consecutiveEmptyFetches, task, persisting, config,
                 manualInFlight, started, refreshes, persistFails>>
  /\ UNCHANGED <<govVars, feedVars, unitVars, emptyPollsSinceNew>>

NextCron ==
  \/ Start
  \/ CronMinute
  \/ \E n \in NewTweetCounts : FetchResolve(n)
  \/ FetchReject
  \/ PersistDone

SpecCron == InitCron /\ [][NextCron]_vars

----------------------------------------------------------------------------
\* calculateExponentialBackoff applied on its own (rateLimitManager.js)

MaxAttempt == 6

InitBackoff ==
  /\ InitSched
  /\ minInterval = 1
  /\ InitLedger
  /\ isFreeTier \in BOOLEAN
  /\ InitCache
  /\ InitTables
  /\ cacheTimeout = DefaultCacheTtl
  /\ isServerless = FALSE
  /\ now = StartClock

\* calculateExponentialBackoff(attempt) with Math.random() = j / JitterDen
Backoff(attempt, j) ==
  /\ applied' = [op |-> "calculateExponentialBackoff", attempt |-> attempt,
                 j |-> j, result |-> CalculateExponentialBackoff(attempt, j)]
  /\ UNCHANGED <<schedVars, govVars, feedVars, tweetRows, configRows,
                 lastSet, now>>

NextBackoff ==
  \E attempt \in 0..MaxAttempt, j \in 0..(JitterDen - 1) : Backoff(attempt, j)

SpecBackoff == InitBackoff /\ [][NextBackoff]_vars

----------------------------------------------------------------------------
\* The ledger operations applied on their own (rateLimitManager.js)

MaxLedgerClock == 2
LedgerStep == 3000

\* the three header values after parseInt: an integer or NaN
HeaderInputs(t) ==
  {Hdr(li, re, rs) : li \in {NaN, 0, 3}, re \in {NaN, 0, 2},
                     rs \in {NaN, (t \div 1000) + 5}}

InitLedgerOnly ==
  /\ InitSched
  /\ minInterval = 1
  /\ InitLedger
  /\ isFreeTier = FALSE
  /\ InitCache
  /\ InitTables
  /\ cacheTimeout = DefaultCacheTtl
  /\ isServerless = FALSE
  /\ now = StartClock

LedgerUpdate(e, h) ==
  /\ ledger' = UpdateFromHeaders(ledger, e, h, now)
  /\ applied' = [op |-> "updateFromHeaders", e |-> e, h |-> h,
                 before |-> ledger]
  /\ UNCHANGED <<schedVars, feedVars, tweetRows, configRows, lastSet, now,
                 isFreeTier, proc, lastCan, calls, errors, lastOp, budget>>

LedgerRecord(e) ==
  /\ ledger' = RecordRequest(ledger, e)
  /\ applied' = [op |-> "recordRequest", e |-> e, h |-> NoHeaders,
                 before |-> ledger]
  /\ UNCHANGED <<schedVars, feedVars, tweetRows, configRows, lastSet, now,
                 isFreeTier, proc, lastCan, calls, errors, lastOp, budget>>

LedgerCheck(e) ==
  /\ ledger' = CanMakeRequest(ledger, e, now).ledger
  /\ applied' = [op |-> "canMakeRequest", e |-> e, h |-> NoHeaders,
                 before |-> ledger]
  /\ UNCHANGED <<schedVars, feedVars, tweetRows, configRows, lastSet, now,
                 isFreeTier, proc, lastCan, calls, errors, lastOp, budget>>

LedgerTick ==
  /\ now < StartClock + MaxLedgerClock * LedgerStep
  /\ now' = now + LedgerStep
  /\ applied' = NotApplied
  /\ UNCHANGED <<schedVars, govVars, feedVars, tweetRows, configRows,
                 lastSet>>

NextLedger ==
  \/ \E e \in Endpoints, h \in HeaderInputs(now) : LedgerUpdate(e, h)
  \/ \E e \in Endpoints : LedgerRecord(e)
  \/ \E e \in Endpoints : LedgerCheck(e)
  \/ LedgerTick

SpecLedger == InitLedgerOnly /\ [][NextLedger]_vars

\* ------------------------------------------------------------------------
\* Properties of the scheduler (checked under Spec)
\* ------------------------------------------------------------------------

C2_RunFetchSkipsWhileRunning ==
  /\ fetching <= 1
  /\ (ev.op = "runFetch" /\ ev.busy) =>
       /\ invoked = pre.invoked
       /\ currentInterval = pre.interval
       /\ consecutiveEmptyFetches = pre.empty
       /\ lastFetchTime = pre.lastFetch

\* a runFetch was skipped a minute after the poll in flight had started
C2_Witness ==
  /\ ev.op = "runFetch"
  /\ ev.busy
  /\ fetching = 1
  /\ lastFetchTime # Null
  /\ lastFetchTime < now

\* C3 (as claimed): a POST /refresh arriving while a poll cycle is in flight
\* does not start a second fetchAndUpdateFeed, so at most one poll cycle is
\* in flight across scheduled and manual triggers.
C3_AtMostOnePollCycle ==
  /\ fetching + manualInFlight <= 1
  /\ (ev.op = "refresh" /\ ev.busy) => fetching + manualInFlight = pre.inFlight

C12_LowActivityTransition ==
  (ev.op = "resolve" /\ ev.n >= 1 /\ ev.n < 5) =>
    /\ currentInterval = pre.interval
    /\ consecutiveEmptyFetches = 0

\* a low-activity poll after empty ones, with room below the interval
C12_Witness ==
  /\ ev.op = "resolve"
  /\ ev.n = 4
  /\ pre.empty > 0
  /\ consecutiveEmptyFetches = 0
  /\ currentInterval = pre.interval
  /\ ~RatLeq(RatMul(pre.interval, 9, 10), RatInt(minInterval))

\* C13: a poll that resolves with newTweets = 0 increments
\* consecutiveEmptyFetches by exactly 1 and sets currentInterval to
\* min(currentInterval * 1.5, maxInterval) if the incremented counter is >= 3,
\* to min(currentInterval * 1.2, maxInterval) otherwise.
C13_EmptyPollTransition ==
  (ev.op = "resolve" /\ ev.n = 0) =>
    /\ consecutiveEmptyFetches = pre.empty + 1
    /\ currentInterval =
         IF consecutiveEmptyFetches >= 3
         THEN RatMin(RatMul(pre.interval, 3, 2), RatInt(maxInterval))
         ELSE RatMin(RatMul(pre.interval, 6, 5), RatInt(maxInterval))

\* the third empty poll in a row multiplied the interval by 1.5, below the
\* upper clamp
C13_Witness ==
  /\ ev.op = "resolve"
  /\ ev.n = 0
  /\ consecutiveEmptyFetches = 3
  /\ currentInterval = RatMul(pre.interval, 3, 2)
  /\ currentInterval # RatInt(maxInterval)

\* C14: consecutiveEmptyFetches equals the number of polls that resolved with
\* newTweets = 0 since the most recent poll that resolved with newTweets > 0
\* (or since construction), and is never negative.
C14_EmptyCounterCounts ==
  /\ consecutiveEmptyFetches = emptyPollsSinceNew
  /\ consecutiveEmptyFetches >= 0

\* the third poll resolved empty after a poll with new tweets had cleared the
\* counter and was persisted
C14_Witness ==
  /\ ev.op = "resolve"
  /\ ev.n = 0
  /\ pre.empty = 0
  /\ invoked = 3
  /\ consecutiveEmptyFetches = 1
  /\ config.consecutive_empty_fetches = 0

\* C15: when the poll function rejects, currentInterval becomes
\* min(currentInterval * 1.2, maxInterval) and consecutiveEmptyFetches keeps
\* its value.
C15_PollFailureTransition ==
  ev.op = "reject" =>
    /\ currentInterval = RatMin(RatMul(pre.interval, 6, 5), RatInt(maxInterval))
    /\ consecutiveEmptyFetches = pre.empty

\* a rejected poll after an empty one, below the upper clamp
C15_Witness ==
  /\ ev.op = "reject"
  /\ pre.empty > 0
  /\ consecutiveEmptyFetches = pre.empty
  /\ currentInterval = RatMul(pre.interval, 6, 5)
  /\ currentInterval # RatInt(maxInterval)

\* the runFetch steps after which the finally block has run
PollFinished == {"reject", "persisted", "persistFailed"}

\* C16: after every poll that runFetch started, whether the poll function
\* resolved or rejected, isRunning is false again and a scheduled run is
\* armed, and a runFetch that fires when no poll is in flight (after any
\* number of failed polls) starts a new poll.
C16_FailedPollRearms ==
  [][/\ ev'.op \in PollFinished =>
          /\ ~isRunning'
          /\ task'.exists
          /\ task'.active
          /\ fetching' = 0
     /\ (ev'.op = "runFetch" /\ fetching = 0 /\ persisting = 0) =>
          /\ isRunning'
          /\ fetching' = 1
          /\ invoked' = invoked + 1]_vars

\* the third poll was started after the first two had both been rejected
C16_Witness ==
  /\ ev.op = "runFetch"
  /\ ~ev.busy
  /\ invoked = 3
  /\ fetching = 1
  /\ isRunning
  /\ task.active
  /\ config = NoConfig
  /\ persistFails = 0

\* C17: after stop() was called while a poll was in flight (a task exists and
\* is stopped), the end of that poll leaves no timer active.
C17_StopPreventsRearm ==
  [][(task.exists /\ ~task.active /\ ev'.op \in PollFinished) =>
       ~task'.active]_vars

\* C24: start() on a freshly constructed scheduler invokes the poll function
\* once in the same step, before any timer can fire, and leaves one task
\* armed at round(minInterval) minutes.
C24_StartPollsOnceAndArms ==
  [][(/\ ~started /\ started'
      /\ invoked = 0 /\ ~isRunning /\ task = NoTask
      /\ currentInterval = RatInt(minInterval)
      /\ consecutiveEmptyFetches = 0)
     => (/\ invoked' = 1
         /\ fetching' = 1
         /\ isRunning'
         /\ lastFetchTime' = now
         /\ task' = [exists |-> TRUE, active |-> TRUE,
                     every |-> RatRound(RatInt(minInterval)),
                     stale |-> 0, armedAt |-> now])]_vars

\* start() was the first call on the scheduler and its poll is in flight
C24_Witness ==
  /\ started
  /\ ev.op = "runFetch"
  /\ ~ev.busy
  /\ pre.invoked = 0
  /\ invoked = 1
  /\ fetching = 1
  /\ task.active
  /\ task.every = minInterval
  /\ refreshes = 0

\* C37 (as claimed): a scheduled poll is triggered I minutes (rounded to a
\* whole minute) after the completion of the poll that left interval I.
C37_NextPollAfterInterval ==
  (ev.op = "cronFetch" /\ ~ev.busy) =>
    lastFetchTime = task.armedAt + task.every * Minute

\* C38: stop() leaves currentInterval, consecutiveEmptyFetches, lastFetchTime
\* and isRunning unchanged, and a stop() that follows a stop() (also before
\* start, when no task exists) changes nothing at all.
C38_StopKeepsState ==
  [][ev'.op = "stop" =>
       /\ currentInterval' = currentInterval
       /\ consecutiveEmptyFetches' = consecutiveEmptyFetches
       /\ lastFetchTime' = lastFetchTime
       /\ isRunning' = isRunning
       /\ ~task'.active
       /\ task'.exists = task.exists
       /\ ev.op = "stop" => task' = task]_vars

\* stop() was called while a poll was in flight
C38_Witness ==
  /\ ev.op = "stop"
  /\ isRunning
  /\ fetching = 1
  /\ task.exists
  /\ ~task.active
  /\ lastFetchTime # Null

\* C39 (as claimed): a poll whose poll function succeeded is adapted once by
\* its newItemCount and is not given the failure transition as well, also
\* when persisting the snapshot afterwards fails.
C39_PersistFailureKeepsInterval ==
  ev.op = "persistFailed" => currentInterval = pre.interval

\* C40: at every moment at most one cron task of the scheduler is running:
\* scheduleNext stops the task it replaces.
C40_SingleActiveTask ==
  task.stale + (IF task.active THEN 1 ELSE 0) <= 1

\* a second poll completed and replaced a running task
C40_Witness ==
  /\ ev.op \in PollFinished
  /\ invoked >= 2
  /\ task.active
  /\ task.armedAt > 0
  /\ task.stale = 0

\* C25 (as claimed): after every poll that runFetch completes, resolved or
\* rejected, the config rows current_interval, consecutive_empty_fetches and
\* last_fetch_time equal the scheduler's fields.
C25_SnapshotMatchesMemory ==
  ev.op \in PollFinished =>
    /\ config.current_interval = currentInterval
    /\ config.consecutive_empty_fetches = consecutiveEmptyFetches
    /\ config.last_fetch_time = lastFetchTime

\* C26 (as claimed): getStatus() reports the in-memory isRunning,
\* currentInterval, lastFetchTime and consecutiveEmptyFetches, and
\* nextFetchEstimate = lastFetchTime + currentInterval minutes.
C26_StatusReportsMemory ==
  /\ GetStatus.isRunning = isRunning
  /\ GetStatus.currentInterval = currentInterval
  /\ GetStatus.lastFetchTime = lastFetchTime
  /\ GetStatus.consecutiveEmptyFetches = consecutiveEmptyFetches
  /\ lastFetchTime # Null =>
       GetStatus.nextFetchEstimate =
         lastFetchTime + (currentInterval[1] * 60000) \div currentInterval[2]

\* ------------------------------------------------------------------------
\* Properties of the feed cache (checked under SpecFeed)
\* ------------------------------------------------------------------------

\* C18: a GET /rss that arrives after a poll cycle has returned with new
\* tweets saved is answered with a document that contains those tweets,
\* whatever regenerations were in progress during the poll cycle.
C18_NextRequestSeesNewItems ==
  (served.status = 200 /\ served.doc # NoDoc) =>
    served.doc.items >= served.need

\* C19: a GET /rss is answered with the cached document, without
\* regenerating it, only if a cached document exists and its age is at most
\* cacheTimeout seconds; every other document sent was regenerated by the
\* request before the response.
C19_CachedOnlyWhenFresh ==
  (served.status = 200 /\ ~served.regenerated) =>
    /\ served.hadCache
    /\ served.age # Null
    /\ served.age <= cacheTimeout * 1000

\* a request was answered from a cache exactly cacheTimeout seconds old,
\* after an earlier request had regenerated the document
C19_Witness ==
  /\ served.status = 200
  /\ ~served.regenerated
  /\ served.hadCache
  /\ served.age = cacheTimeout * 1000
  /\ served.doc = cachedRSSFeed
  /\ requests = 2

\* ------------------------------------------------------------------------
\* Properties of the governed request (checked under SpecGov / SpecGovFair)
\* ------------------------------------------------------------------------
Settled == {"returned", "raised"}

C5_NoRetryOnOtherErrors ==
  [][\A p \in Callers :
       (/\ proc[p].pc = "inflight"
        /\ proc'[p].pc # "inflight"
        /\ proc'[p].pc # "returned"
        /\ proc'[p].err.code # 429)
       => (/\ proc'[p].pc = "raised"
           /\ proc'[p].inv = proc[p].inv
           /\ proc'[p].err.at = proc[p].attempt)]_vars

\* a 404 on the second attempt (after one 429) was raised at once
C5_Witness ==
  \E p \in Callers :
    /\ proc[p].pc = "raised"
    /\ proc[p].err.code = 404
    /\ proc[p].err.at = 1
    /\ proc[p].attempt = 1
    /\ proc[p].inv = 2

\* C6: the operation is invoked at most maxRetries + 1 times per call, and
\* every call eventually returns or raises, provided every dispatched
\* operation settles and every timer fires.
C6_CallTerminates ==
  /\ \A p \in Callers : [](proc[p].inv <= proc[p].mr + 1)
  /\ \A p \in Callers :
       (proc[p].pc \notin (Settled \cup {"idle"})) ~> (proc[p].pc \in Settled)

\* a call returned on its third attempt, after two waits
C6_Witness ==
  \E p \in Callers :
    /\ proc[p].pc = "returned"
    /\ proc[p].attempt = 2
    /\ proc[p].inv = 3

\* C7 (as claimed): the operation is never dispatched while the ledger holds
\* a record of its endpoint with remaining = 0 and now < resetAt.
C7_NeverDispatchWhenExhausted ==
  [][\A p \in Callers :
       (proc[p].pc # "inflight" /\ proc'[p].pc = "inflight")
       => ~Exhausted(ledger', proc'[p].ep, now')]_vars

\* C8: canMakeRequest answers allowed with zero wait when there is no
\* record or the record has remaining > 0 and now < resetAt; with
\* remaining = 0 and now < resetAt it answers not allowed with
\* waitTime = resetAt - now > 0.
C8_CanMakeRequestAnswer ==
  lastCan.called =>
    /\ ~lastCan.had => (lastCan.canRequest /\ lastCan.waitTime = 0)
    /\ (lastCan.had /\ lastCan.remaining > 0 /\ lastCan.untilReset > 0)
         => (lastCan.canRequest /\ lastCan.waitTime = 0)
    /\ (lastCan.had /\ lastCan.remaining = 0 /\ lastCan.untilReset > 0)
         => (/\ ~lastCan.canRequest
             /\ lastCan.waitTime = lastCan.untilReset
             /\ lastCan.waitTime > 0)

\* canMakeRequest met an exhausted record 4600 ms before its reset
C8_Witness ==
  /\ lastCan.called
  /\ lastCan.had
  /\ lastCan.remaining = 0
  /\ lastCan.untilReset > 0
  /\ lastCan.untilReset % 1000 # 0
  /\ ~lastCan.canRequest

\* C9: canMakeRequest on a record with now >= resetAt answers allowed with
\* zero wait whatever the remaining value, and removes the record.
C9_StaleRecordDiscarded ==
  (lastCan.called /\ lastCan.had /\ lastCan.untilReset <= 0) =>
    /\ lastCan.canRequest
    /\ lastCan.waitTime = 0
    /\ ~lastCan.hasAfter

\* canMakeRequest met an exhausted record whose window had rolled over
C9_Witness ==
  /\ lastCan.called
  /\ lastCan.had
  /\ lastCan.untilReset <= 0
  /\ lastCan.remaining = 0
  /\ \A k \in Keys : ~ledger[k].has

\* C20: getListTweets raises the not-found error for an upstream 404, the
\* unauthorized error for 401, the rate-limited error for 429 (raised only
\* once the retries are exhausted) and any other error unchanged, and it
\* returns a tweet list only when the last operation dispatched resolved.
C20_ErrorTranslation ==
  \A p \in Callers :
    LET q == proc[p]
    IN /\ q.pc = "raised" =>
            /\ q.out.kind = "error"
            /\ q.err.code = 404 =>
                 q.out.message = "List not found. Please check the list ID."
            /\ q.err.code = 401 =>
                 q.out.message =
                   "Unauthorized. Please check your Twitter API credentials."
            /\ q.err.code = 429 =>
                 /\ q.out.message = "Rate limit exceeded. Will retry later."
                 /\ q.attempt > q.mr
            /\ q.err.code \notin {404, 401, 429} =>
                 q.out = [kind |-> "error", message |-> "upstream",
                          code |-> q.err.code]
       /\ q.out.kind = "tweets" =>
            /\ q.pc = "returned"
            /\ q.err = NoErr \/ q.err.at < q.attempt

\* a call was retried after a 429 and then raised the not-found error for a
\* 404, while the other caller had raised the rate-limited error
C20_Witness ==
  \E p, o \in Callers :
    /\ proc[p].pc = "raised"
    /\ proc[p].err.code = 404
    /\ proc[p].attempt = 1
    /\ proc[p].out.message = "List not found. Please check the list ID."
    /\ proc[o].pc = "raised"
    /\ proc[o].err.code = 429
    /\ proc[o].out.message = "Rate limit exceeded. Will retry later."

\* the ledger key of the call whose operation the last step settled
----------------------------------------------------------------------------
\* The database operations applied on their own (database.js)

MaxBatch == 2

\* ids, created_at texts (fixed-width ISO-8601 instants, so that the order of
\* the texts is the order of the numbers) and values of the config table
TweetIds == {1, 2, 3}
CreatedAts == {10, 20}
ConfigValues == {1, 2}
Limits == {1, 2, 50}

TweetInputs == [id : TweetIds, created_at : CreatedAts]

Batches == UNION {[1..m -> TweetInputs] : m \in 0..MaxBatch}

\* INSERT OR REPLACE INTO tweets: id is the primary key
InsertOrReplaceAdds(rows, t) == rows \cup {t}

InsertOrReplace(rows, t) == {r \in rows : r.id # t.id} \cup {t}

\* tweets.forEach(stmt.run): the rows are written in the order of the batch
RECURSIVE SaveAll(_, _)
SaveAll(rows, ts) ==
  IF ts = <<>> THEN rows
  ELSE SaveAll(InsertOrReplace(rows, Head(ts)), Tail(ts))

SortedDesc(s) ==
  \A i \in 1..(Len(s) - 1) : s[i].created_at >= s[i + 1].created_at

\* SELECT * FROM tweets ORDER BY created_at DESC LIMIT n: the results the
\* query may give (rows with equal created_at come in either order)
SelectTweets(rows, n) ==
  LET m == MinOf(n, Cardinality(rows))
  IN {s \in [1..m -> rows] :
        /\ \A i, j \in DOMAIN s : i # j => s[i] # s[j]
        /\ SortedDesc(s)
        /\ \A r \in rows :
             (\A i \in DOMAIN s : s[i] # r) =>
               \A i \in DOMAIN s : s[i].created_at >= r.created_at}

\* SELECT id FROM tweets ORDER BY created_at DESC LIMIT 1; row ? row.id : null
SelectLatestIdAsc(rows) ==
  IF rows = {} THEN {Null}
  ELSE {r.id : r \in {x \in rows :
                        \A o \in rows : o.created_at >= x.created_at}}

SelectLatestId(rows) ==
  IF rows = {} THEN {Null}
  ELSE {r.id : r \in {x \in rows :
                        \A o \in rows : o.created_at <= x.created_at}}

\* INSERT OR REPLACE INTO config (key, value, updated_at)
UpsertConfigIgnores(rows, k, v) ==
  IF rows[k] = Null THEN [rows EXCEPT ![k] = v] ELSE rows

UpsertConfig(rows, k, v) == [rows EXCEPT ![k] = v]

InitStore ==
  /\ InitSched
  /\ minInterval = 1
  /\ InitLedger
  /\ isFreeTier = FALSE
  /\ InitCache
  /\ InitTables
  /\ cacheTimeout = DefaultCacheTtl
  /\ isServerless = FALSE
  /\ now = StartClock

SaveTweets(ts) ==
  /\ tweetRows' = SaveAll(tweetRows, ts)
  /\ applied' = [op |-> "saveTweets", ts |-> ts, before |-> tweetRows]
  /\ UNCHANGED <<schedVars, govVars, feedVars, configRows, lastSet, now>>

GetTweets(n) ==
  /\ \E s \in SelectTweets(tweetRows, n) :
       applied' = [op |-> "getTweets", n |-> n, result |-> s]
  /\ UNCHANGED <<schedVars, govVars, feedVars, tweetRows, configRows,
                 lastSet, now>>

GetLatestTweetId ==
  /\ \E i \in SelectLatestId(tweetRows) :
       applied' = [op |-> "getLatestTweetId", result |-> i]
  /\ UNCHANGED <<schedVars, govVars, feedVars, tweetRows, configRows,
                 lastSet, now>>

SetConfig(k, v) ==
  /\ configRows' = UpsertConfig(configRows, k, v)
  /\ lastSet' = [lastSet EXCEPT ![k] = v]
  /\ applied' = [op |-> "setConfig", k |-> k, v |-> v]
  /\ UNCHANGED <<schedVars, govVars, feedVars, tweetRows, now>>

\* row ? row.value : null
GetConfig(k) ==
  /\ applied' = [op |-> "getConfig", k |-> k, result |-> configRows[k]]
  /\ UNCHANGED <<schedVars, govVars, feedVars, tweetRows, configRows,
                 lastSet, now>>

NextStore ==
  \/ \E ts \in Batches : SaveTweets(ts)
  \/ \E n \in Limits : GetTweets(n)
  \/ GetLatestTweetId
  \/ \E k \in ConfigKeys, v \in ConfigValues : SetConfig(k, v)
  \/ \E k \in ConfigKeys : GetConfig(k)

SpecStore == InitStore /\ [][NextStore]_vars

----------------------------------------------------------------------------
\* Properties of the ledger operations (checked under SpecLedger) and of the
\* database operations (checked under SpecStore)

\* the record of the endpoint the applied operation was given, before and after
AppliedKey == NormalizeEndpoint(applied.e)
AppliedBefore == applied.before[AppliedKey]

\* C21: recordRequest lowers remaining by exactly 1 when a record exists with
\* remaining > 0 and leaves it at 0 when it is already 0; after any sequence
\* of header updates with non-negative values and recorded calls every
\* record's remaining is >= 0.
C21_RecordRequestDecrements ==
  /\ applied.op = "recordRequest" =>
       /\ (AppliedBefore.has /\ AppliedBefore.remaining > 0) =>
            ledger = [applied.before EXCEPT
                        ![AppliedKey].remaining = AppliedBefore.remaining - 1]
       /\ (AppliedBefore.has /\ AppliedBefore.remaining = 0) =>
            /\ ledger = applied.before
            /\ ledger[AppliedKey].remaining = 0
       /\ ~AppliedBefore.has => ledger = applied.before
  /\ \A k \in Keys : ledger[k].has => ledger[k].remaining >= 0

C21_Witness ==
  /\ applied.op = "recordRequest"
  /\ AppliedBefore.has
  /\ AppliedBefore.remaining = 0
  /\ ledger[AppliedKey].has
  /\ ledger[AppliedKey].remaining = 0

\* C23: updateFromHeaders replaces the endpoint's record with exactly the
\* given limit, remaining and reset (epoch seconds turned into milliseconds)
\* when all three parse as integers, and changes nothing when any of the
\* three does not parse.
C23_UpdateReplacesOrNoOp ==
  applied.op = "updateFromHeaders" =>
    IF applied.h.limit # NaN /\ applied.h.remaining # NaN
       /\ applied.h.reset # NaN
    THEN /\ ledger[AppliedKey].has
         /\ ledger[AppliedKey].limit = applied.h.limit
         /\ ledger[AppliedKey].remaining = applied.h.remaining
         /\ ledger[AppliedKey].reset = applied.h.reset * 1000
         /\ \A k \in Keys \ {AppliedKey} : ledger[k] = applied.before[k]
    ELSE ledger = applied.before

C23_Witness ==
  /\ applied.op = "updateFromHeaders"
  /\ AppliedBefore.has
  /\ applied.h.limit # NaN /\ applied.h.remaining # NaN
  /\ applied.h.reset # NaN
  /\ AppliedBefore.remaining # applied.h.remaining
  /\ AppliedBefore.reset # applied.h.reset * 1000
  /\ ledger[AppliedKey].remaining = applied.h.remaining

\* the presets of calculateExponentialBackoff: first delay, cap and floor
BackoffBase == IF isFreeTier THEN 10 * Minute ELSE 5 * Minute
BackoffCap == IF isFreeTier THEN 120 * Minute ELSE 60 * Minute
BackoffFloor == IF isFreeTier THEN 5 * Minute ELSE Minute

\* C35: for every attempt number and jitter value the backoff delay is at
\* least the tier floor (5 minutes in free-tier mode, 1 minute otherwise);
\* with zero jitter it is min(base * 2^attempt, cap), which does not decrease
\* as the attempt number grows.
C35_BackoffFloorAndDoubling ==
  applied.op = "calculateExponentialBackoff" =>
    /\ applied.result >= BackoffFloor
    /\ applied.j = ZeroJitter =>
         /\ applied.result =
              MinOf(BackoffBase * Pow2(applied.attempt), BackoffCap)
         /\ applied.attempt > 0 =>
              applied.result >=
                MinOf(BackoffBase * Pow2(applied.attempt - 1), BackoffCap)

\* zero jitter on the first attempt whose doubled delay reaches the cap
C35_Witness ==
  /\ applied.op = "calculateExponentialBackoff"
  /\ applied.j = ZeroJitter
  /\ applied.attempt = 4
  /\ isFreeTier
  /\ applied.result = 120 * Minute

\* C36 (as claimed): for every attempt number and jitter value the backoff
\* delay does not exceed the cap of the active preset.
C36_BackoffWithinCap ==
  applied.op = "calculateExponentialBackoff" => applied.result <= BackoffCap

\* C27: getLatestTweetId returns the id of a stored tweet whose created_at is
\* the greatest of the table, after any sequence of saveTweets calls, and
\* null when no tweet is stored.
C27_LatestIdIsNewest ==
  applied.op = "getLatestTweetId" =>
    IF tweetRows = {}
    THEN applied.result = Null
    ELSE \E r \in tweetRows :
           /\ r.id = applied.result
           /\ \A o \in tweetRows : o.created_at <= r.created_at

C27_Witness ==
  /\ applied.op = "getLatestTweetId"
  /\ Cardinality(tweetRows) >= 2
  /\ \E r, o \in tweetRows :
       r.id = applied.result /\ o.created_at < r.created_at

\* C28: after saveTweets(ts) every tweet of ts is stored exactly once under
\* its id (a tweet whose id was already stored replaces the row, and of two
\* tweets of ts with one id the later one stays), no id is ever stored
\* twice, and getTweets(n) returns at most n stored tweets ordered by
\* created_at descending.
C28_SaveReplacesAndGetOrders ==
  /\ \A r, o \in tweetRows : r.id = o.id => r = o
  /\ applied.op = "saveTweets" =>
       \A i \in DOMAIN applied.ts :
         /\ Cardinality({r \in tweetRows : r.id = applied.ts[i].id}) = 1
         /\ (\A j \in DOMAIN applied.ts :
               j > i => applied.ts[j].id # applied.ts[i].id)
              => applied.ts[i] \in tweetRows
  /\ applied.op = "getTweets" =>
       /\ Len(applied.result) <= applied.n
       /\ SortedDesc(applied.result)
       /\ \A i \in DOMAIN applied.result : applied.result[i] \in tweetRows
       /\ \A i, j \in DOMAIN applied.result :
            i # j => applied.result[i] # applied.result[j]

C28_Witness ==
  /\ applied.op = "saveTweets"
  /\ \E i \in DOMAIN applied.ts :
       \E r \in applied.before :
         /\ r.id = applied.ts[i].id
         /\ r # applied.ts[i]
         /\ applied.ts[i] \in tweetRows
         /\ r \notin tweetRows

\* C29: getConfig(k) returns the value of the most recent setConfig(k, v) for
\* that key, whatever was set for other keys, and null for a key never set.
C29_GetConfigReturnsLastSet ==
  applied.op = "getConfig" => applied.result = lastSet[applied.k]

C29_Witness ==
  /\ applied.op = "getConfig"
  /\ applied.result # Null
  /\ \E o \in ConfigKeys :
       o # applied.k /\ lastSet[o] # Null /\ lastSet[o] # applied.result

LastKey == NormalizeEndpoint(proc[lastOp.p].ep)

\* C22 (as claimed): a successful response without rate-limit information
\* leaves the ledger record of the endpoint exactly as it was.
C22_LedgerUntouched ==
  (lastOp.kind = "ok" /\ lastOp.h = NoHeaders) =>
    ledger[LastKey] = lastOp.before

\* C22 (amended): a successful response without rate-limit information
\* leaves limit, reset and lastUpdated of the endpoint's record as they were
\* and an absent record absent; remaining is lowered by one by recordRequest
\* when it was positive.
C22_OnlyRemainingTouched ==
  (lastOp.kind = "ok" /\ lastOp.h = NoHeaders) =>
    LET r == ledger[LastKey]
        b == lastOp.before
    IN /\ r.has = b.has
       /\ r.limit = b.limit
       /\ r.reset = b.reset
       /\ r.lastUpdated = b.lastUpdated
       /\ r.remaining = IF b.has /\ b.remaining > 0
                        THEN b.remaining - 1 ELSE b.remaining

\* a response without rate-limit information arrived while the record had a
\* call left in an open window
C22_Witness ==
  /\ lastOp.kind = "ok"
  /\ lastOp.h = NoHeaders
  /\ lastOp.before.has
  /\ lastOp.before.remaining = 1
  /\ now < lastOp.before.reset
  /\ ledger[LastKey].remaining = 0
  /\ proc[lastOp.p].pc = "returned"

\* C31 (as claimed): between a header update that reported remaining = R
\* and the reset time of that window, at most R operations are dispatched
\* for the endpoint, whichever calls dispatch them.
C31_DispatchesWithinBudget ==
  budget.has => budget.dispatched <= budget.remaining

\* C32 (as claimed): a dispatched operation that fails also takes one unit
\* off the remaining budget of an open window.
C32_FailedCallRecorded ==
  (/\ lastOp.kind = "err"
   /\ lastOp.before.has
   /\ lastOp.before.remaining > 0
   /\ now < lastOp.before.reset)
  => ledger[LastKey].remaining = lastOp.before.remaining - 1

\* C33 (as claimed): after a successful call whose response carries the
\* values (limit L, remaining R, reset T) the record of the endpoint is
\* (L, max(R - 1, 0), T * 1000) and the call has returned the response.
C33_SuccessRecordsHeaders ==
  (/\ lastOp.kind = "ok"
   /\ lastOp.h.has
   /\ lastOp.h.limit # NaN
   /\ lastOp.h.remaining # NaN
   /\ lastOp.h.reset # NaN)
  => /\ ledger[LastKey].has
     /\ ledger[LastKey].limit = lastOp.h.limit
     /\ ledger[LastKey].remaining = MaxOf(lastOp.h.remaining - 1, 0)
     /\ ledger[LastKey].reset = lastOp.h.reset * 1000
     /\ proc[lastOp.p].pc = "returned"

\* C34: after a 429 with attempts left the call sleeps before its next
\* attempt, until the reset time of the ledger record plus one second when
\* the record shows the endpoint exhausted in an open window, and otherwise
\* for the backoff delay of the current attempt number; after the 429 of
\* the last attempt it raises without sleeping.
C34_RetryWaits ==
  (lastOp.kind = "err" /\ lastOp.code = 429) =>
    LET q == proc[lastOp.p]
        b == lastOp.before
    IN IF q.err.at < q.mr
       THEN /\ q.pc = "retrySleep"
            /\ q.attempt = q.err.at
            /\ IF b.has /\ now < b.reset /\ b.remaining <= 0
               THEN q.wakeAt = b.reset + 1000
               ELSE \E j \in 0..(JitterDen - 1) :
                      q.wakeAt = now + CalculateExponentialBackoff(q.attempt, j)
       ELSE q.pc = "raised"

\* a 429 arrived while the ledger showed the endpoint exhausted
C34_Witness ==
  /\ lastOp.kind = "err"
  /\ lastOp.code = 429
  /\ lastOp.before.has
  /\ lastOp.before.remaining = 0
  /\ now < lastOp.before.reset
  /\ proc[lastOp.p].pc = "retrySleep"
  /\ proc[lastOp.p].wakeAt = lastOp.before.reset + 1000

\* C30 (as claimed): when the wait of waitForRateLimit ends and the call
\* goes on to dispatch its operation, canMakeRequest for the endpoint
\* answers allowed, whatever other calls wrote to the ledger meanwhile.
C30_AllowedWhenWaitReturns ==
  [][\A p \in Callers :
       (proc[p].pc = "waitSleep" /\ proc'[p].pc = "inflight")
       => CanMakeRequest(ledger, proc[p].ep, now).canRequest]_vars

====
